---- MODULE Spec2Model ----
(***************************************************************************)
(* A model of nsx-install.py: one run of the script.  The run reads the    *)
(* two flat key-value files (defaults, user config), builds the variables  *)
(* document in generate_vars_file and, with --start, runs the playbooks of *)
(* call_ansible_to_install one after the other through run_playbook.       *)
(*                                                                         *)
(* Strings the script computes on (int(), lower(), split(), strip(), +)    *)
(* are sequences of one-character strings; strings it only copies or       *)
(* compares are TLA+ strings.                                              *)
(***************************************************************************)
EXTENDS Integers, Sequences, FiniteSets, TLC

VARIABLES
  args,          \* the flags given on the command line (argparse, store_true)
  defaultsFile,  \* g_defaults as txt_to_json reads it: key -> value
  configFile,    \* g_config as txt_to_json reads it: key -> value
  vdsLookup,     \* what the vCenter answers to get_vds_uuid in this run
  pc,            \* where the run is
  step,          \* the playbook call_ansible_to_install is at (index in Playbooks)
  started,       \* playbooks handed to os.system, in order
  returned,      \* the status os.system returned for each, in order
  varsFile,      \* g_nsx_install_vars: <<>> (not written) or <<document>>
  written,       \* the files this run has written
  genOutcome,    \* how generate_vars_file ended in this run
  exitStatus,    \* the process's exit status, -1 while it runs
  toWrite,       \* the writeln calls a writer of a key-value file makes, in order
  wrote,         \* how many of them it has made
  fd,            \* the text of the file it writes, character by character
  jsondict       \* what txt_to_json returned for that file

\* the key-value file followed character by character
fileVars == <<toWrite, wrote, fd, jsondict>>

vars == <<args, defaultsFile, configFile, vdsLookup, pc, step, started,
          returned, varsFile, written, genOutcome, exitStatus, fileVars>>

----------------------------------------------------------------------------
(* Bounds of the model. *)

\* uplink counts 0..MaxUplinks are tried (the code accepts up to 2)
MaxUplinks == 3
\* compute_clusters_for_prep values of up to MaxClusterLen characters
MaxClusterLen == 4
\* keys of up to MaxKeyLen characters are written and read back
MaxKeyLen == 2
\* values of up to MaxValueLen characters are written and read back
MaxValueLen == 2

----------------------------------------------------------------------------
(* File names (the globals of the script). *)

g_defaults == "./nsx-defaults.txt"
g_config == "./nsx-config.txt"
g_nsx_install_vars == "./nsx_pacific_vars.yml"

----------------------------------------------------------------------------
(* Python string operations, on sequences of characters. *)

Whitespace == {" ", "\t", "\n"}
Digits == <<"0", "1", "2", "3", "4", "5", "6", "7", "8", "9">>
UpperCase == <<"A","B","C","D","E","F","G","H","I","J","K","L","M",
               "N","O","P","Q","R","S","T","U","V","W","X","Y","Z">>
LowerCase == <<"a","b","c","d","e","f","g","h","i","j","k","l","m",
               "n","o","p","q","r","s","t","u","v","w","x","y","z">>

\* str.lower(), one character
LowerChar(c) ==
  IF \E i \in 1..Len(UpperCase) : UpperCase[i] = c
  THEN LowerCase[CHOOSE i \in 1..Len(UpperCase) : UpperCase[i] = c]
  ELSE c

\* str.lower()
lower(s) == [i \in 1..Len(s) |-> LowerChar(s[i])]

RECURSIVE lstrip(_)
lstrip(s) ==
  IF s # <<>> /\ Head(s) \in Whitespace THEN lstrip(Tail(s)) ELSE s

RECURSIVE rstrip(_)
rstrip(s) ==
  IF s # <<>> /\ s[Len(s)] \in Whitespace
  THEN rstrip(SubSeq(s, 1, Len(s) - 1))
  ELSE s

\* str.strip(): leading and trailing whitespace removed
strip(s) == rstrip(lstrip(s))

\* the positions of the separator in the string
SepAt(s, sep) == { i \in 1..Len(s) : s[i] = sep }

\* the position of the n-th separator
NthSep(s, sep, n) ==
  CHOOSE i \in SepAt(s, sep) : Cardinality({ j \in SepAt(s, sep) : j <= i }) = n

\* str.split(sep): the pieces between the separators, empty pieces kept
split(s, sep) ==
  [n \in 1..(Cardinality(SepAt(s, sep)) + 1) |->
     SubSeq(s,
            IF n = 1 THEN 1 ELSE NthSep(s, sep, n - 1) + 1,
            IF n = Cardinality(SepAt(s, sep)) + 1 THEN Len(s)
            ELSE NthSep(s, sep, n) - 1)]

DigitValue(c) == (CHOOSE i \in 1..Len(Digits) : Digits[i] = c) - 1

RECURSIVE DigitsValue(_)
DigitsValue(s) ==
  IF s = <<>> THEN 0
  ELSE 10 * DigitsValue(SubSeq(s, 1, Len(s) - 1)) + DigitValue(s[Len(s)])

\* int(s): surrounding whitespace ignored, an optional sign, then decimal
\* digits; anything else raises ValueError (ok = FALSE)
int(s) ==
  LET t == strip(s)
      signed == t # <<>> /\ Head(t) \in {"+", "-"}
      body == IF signed THEN Tail(t) ELSE t
      ok == body # <<>>
            /\ \A i \in 1..Len(body) : \E d \in 1..Len(Digits) : Digits[d] = body[i]
  IN  IF ~ok THEN [ok |-> FALSE, val |-> 0]
      ELSE [ok |-> TRUE,
            val |-> IF signed /\ Head(t) = "-"
                    THEN 0 - DigitsValue(body) ELSE DigitsValue(body)]

\* range(n): the indices 0 .. n-1, none when n <= 0
range(n) == { i \in 0..(n - 1) : TRUE }

----------------------------------------------------------------------------
(* The two key-value files.  Only the keys the checked logic depends on are *)
(* modelled; the other keys are present and merely copied.                  *)

\* reset_defaults: the factory defaults
FactoryDefaults ==
  [ nsx_vcenter           |-> "vSphere_NSX_deploy",
    compute_manager_name  |-> "vcenter",
    edge1_host_switch_name |-> "nvds1",
    edge1_display_name    |-> "edge-01",
    edge2_host_switch_name |-> "nvds1",
    edge2_display_name    |-> "edge-02",
    tier0_display_name    |-> "vSphereK8sT0",
    host_tnp_display_name |-> "vSphereK8_TNP" ]

\* a defaults file the user has edited
EditedDefaults ==
  [ FactoryDefaults EXCEPT !.nsx_vcenter = "mgmt-vc",
                           !.compute_manager_name = "compute-vc",
                           !.host_tnp_display_name = "my_TNP" ]

ConfigKeys ==
  { "nsx_manager_cluster", "nsx_vcenter_fqdn", "vcenter_fqdn",
    "edge1_number_of_uplinks", "edge1_mgmt_netmask_prefix", "edge1_data_network",
    "edge2_number_of_uplinks", "edge2_mgmt_netmask_prefix", "edge2_data_network",
    "Tier0_BGP_AS_Number", "host_vds_name", "host_number_of_uplinks",
    "compute_clusters_for_prep" }

\* the keys whose values the script computes on: sequences of characters
CharKeys ==
  { "nsx_manager_cluster", "edge1_number_of_uplinks", "edge1_mgmt_netmask_prefix",
    "edge2_number_of_uplinks", "edge2_mgmt_netmask_prefix",
    "host_number_of_uplinks", "compute_clusters_for_prep" }

\* reset_config: every value empty, except nsx_manager_cluster = "yes" and
\* the three uplink counts = "2"
FactoryConfig ==
  [ k \in ConfigKeys |->
      IF k = "nsx_manager_cluster" THEN <<"y", "e", "s">>
      ELSE IF k \in { "edge1_number_of_uplinks", "edge2_number_of_uplinks",
                      "host_number_of_uplinks" } THEN <<"2">>
      ELSE IF k \in CharKeys THEN <<>>
      ELSE "" ]

\* a config file: the keys of `present`, with the values of record v
ConfigOf(present, v) == [ k \in present |-> v[k] ]

----------------------------------------------------------------------------
(* get_vds_uuid: the switch is found and its uuid returned, or the process  *)
(* exits with status 2 (switch not found, or a vmodl.MethodFault).          *)

VdsNotFound == "NotFound"
VdsMethodFault == "MethodFault"
VdsAnswers == { "50 2a 9c 11", VdsNotFound, VdsMethodFault }

get_vds_uuid(answer) ==
  IF answer \in { VdsNotFound, VdsMethodFault }
  THEN [kind |-> "exit", status |-> 2, at |-> "get_vds_uuid", error |-> answer]
  ELSE [kind |-> "ok", status |-> 0, at |-> "get_vds_uuid", error |-> ""]

----------------------------------------------------------------------------
(* generate_vars_file: what stops it.  The reads of the config, in source   *)
(* order; the first one that fails decides how the function ends.           *)

GenReads ==
  << [key |-> "nsx_vcenter_fqdn",          use |-> "str"],      \* line 361
     [key |-> "vcenter_fqdn",              use |-> "str"],      \* line 404
     [key |-> "edge1_number_of_uplinks",   use |-> "uplinks"],  \* line 495
     [key |-> "edge1_mgmt_netmask_prefix", use |-> "int"],      \* line 537
     [key |-> "edge2_data_network",        use |-> "str"],      \* line 542
     [key |-> "edge2_number_of_uplinks",   use |-> "uplinks"],  \* line 582
     [key |-> "edge2_mgmt_netmask_prefix", use |-> "int"],      \* line 624
     [key |-> "edge2_data_network",        use |-> "str"],      \* line 629
     [key |-> "host_vds_name",             use |-> "vds"],      \* line 723
     [key |-> "host_number_of_uplinks",    use |-> "uplinks"],  \* line 734
     [key |-> "compute_clusters_for_prep", use |-> "str"] >>    \* line 765

Continue(key) == [kind |-> "ok", status |-> 0, at |-> key, error |-> ""]

\* an exception nobody catches: traceback, exit status 1
Uncaught(key, error) ==
  [kind |-> "exception", status |-> 1, at |-> key, error |-> error]

\* uplinks_check with the limit one too high
uplinks_check_limit_three(config, key) ==
  IF ~int(config[key]).ok THEN Uncaught(key, "ValueError")
  ELSE IF int(config[key]).val > 3
       THEN [kind |-> "exit", status |-> 2, at |-> key, error |-> "Max allowed Uplinks: 2"]
       ELSE Continue(key)

\* if (int (config [key]) > 2): ... sys.exit (2)
uplinks_check(config, key) ==
  IF ~int(config[key]).ok THEN Uncaught(key, "ValueError")
  ELSE IF int(config[key]).val > 2
       THEN [kind |-> "exit", status |-> 2, at |-> key, error |-> "Max allowed Uplinks: 2"]
       ELSE Continue(key)

\* one read of the config
GenRead(config, answer, r) ==
  IF r.key \notin DOMAIN config THEN Uncaught(r.key, "KeyError")
  ELSE IF r.use = "uplinks" THEN uplinks_check(config, r.key)
  ELSE IF r.use = "int"
       THEN (IF int(config[r.key]).ok THEN Continue(r.key)
             ELSE Uncaught(r.key, "ValueError"))
  ELSE IF r.use = "vds" THEN get_vds_uuid(answer)
  ELSE Continue(r.key)

\* the reads from the i-th on: the first failure, or "written" after the last
RECURSIVE GenFrom(_, _, _)
GenFrom(config, answer, i) ==
  IF i > Len(GenReads)
  THEN [kind |-> "written", status |-> 0, at |-> g_nsx_install_vars, error |-> ""]
  ELSE LET res == GenRead(config, answer, GenReads[i])
       IN  IF res.kind # "ok" THEN res ELSE GenFrom(config, answer, i + 1)

GenResult(config, answer) == GenFrom(config, answer, 1)

----------------------------------------------------------------------------
(* generate_vars_file: the document (nsx_vars) it builds.  Evaluated only   *)
(* when no read fails.  The parts kept are those the checked logic shapes.  *)

\* the edge loop body: the pnic appended for loop index i
edge_pnic(i) ==
  IF i = 0 THEN [device_name |-> "fp-eth0", uplink_name |-> "uplink-1"]
  ELSE IF i = 1 THEN [device_name |-> "fp-eth1", uplink_name |-> "uplink-2"]
  ELSE <<>>   \* neither branch taken: the empty dict

\* for i in range (int (config ["edgeK_number_of_uplinks"]) - 1): pnics.append (pnic)
edge_pnics(n) == [ k \in 1..Cardinality(range(n - 1)) |-> edge_pnic(k - 1) ]

\* the host loop body: the uplink appended for loop index i
host_uplink(i) ==
  IF i = 0 THEN [vds_uplink_name |-> "Uplink 1", uplink_name |-> "uplink-1"]
  ELSE [vds_uplink_name |-> "Uplink 2", uplink_name |-> "uplink-2"]

\* host_uplinks with the loop of the edges: range (n - 1)
host_uplinks_one_short(n) ==
  [ k \in 1..Cardinality(range(n - 1)) |-> host_uplink(k - 1) ]

\* for i in range (int (config ["host_number_of_uplinks"])): uplinks.append (uplink)
host_uplinks(n) == [ k \in 1..Cardinality(range(n)) |-> host_uplink(k - 1) ]

\* defaults after the compute manager block: when NSX is deployed on the
\* vCenter that is registered as compute manager, nsx_vcenter takes its name
defaults_after_cm(defaults, config) ==
  IF config["nsx_vcenter_fqdn"] # config["vcenter_fqdn"] THEN defaults
  ELSE [defaults EXCEPT !.nsx_vcenter = defaults.compute_manager_name]

compute_managers(defaults, config) ==
  LET cm1 == [display_name |-> defaults.compute_manager_name,
              mgmt_ip |-> config["vcenter_fqdn"],
              set_as_oidc_provider |-> "true"]
      cm2 == [display_name |-> defaults.nsx_vcenter,
              mgmt_ip |-> config["nsx_vcenter_fqdn"],
              set_as_oidc_provider |-> "false"]
  IN  IF config["nsx_vcenter_fqdn"] # config["vcenter_fqdn"]
      THEN <<cm1, cm2>> ELSE <<cm1>>

\* edge1; defaults is the defaults after the compute manager block
edge1(defaults, config) ==
  [ host_switch_spec |->
      [ host_switches |->
          << [ host_switch_name |-> defaults.edge1_host_switch_name,
               pnics |-> edge_pnics(int(config["edge1_number_of_uplinks"]).val) ] >> ],
    node_deployment_info |->
      [ deployment_config |->
          [ vm_deployment_config |->
              [ vc_name |-> defaults.nsx_vcenter,
                prefix_length |-> int(config["edge1_mgmt_netmask_prefix"]).val,
                data_networks |-> << config["edge2_data_network"] >> ] ] ],
    display_name |-> defaults.edge1_display_name ]

edge2(defaults, config) ==
  [ host_switch_spec |->
      [ host_switches |->
          << [ host_switch_name |-> defaults.edge2_host_switch_name,
               pnics |-> edge_pnics(int(config["edge2_number_of_uplinks"]).val) ] >> ],
    node_deployment_info |->
      [ deployment_config |->
          [ vm_deployment_config |->
              [ vc_name |-> defaults.nsx_vcenter,
                prefix_length |-> int(config["edge2_mgmt_netmask_prefix"]).val,
                data_networks |-> << config["edge2_data_network"] >> ] ] ],
    display_name |-> defaults.edge2_display_name ]

tier0_gateways(defaults) ==
  << [ display_name |-> defaults.tier0_display_name,
       locale_services |->
         << [ BGP |-> [state |-> "present", local_as_num |-> "1121"] ] >> ] >>

transport_node_profiles(defaults, config, uuid) ==
  << [ display_name |-> defaults.host_tnp_display_name,
       description |-> defaults.host_tnp_display_name,
       host_switch_spec |->
         [ host_switches |->
             << [ host_switch_id |-> uuid,
                  uplinks |-> host_uplinks(int(config["host_number_of_uplinks"]).val) ] >> ] ] >>

\* tn_collection without the cluster.strip()
tn_collection_unstripped(defaults, item) ==
  [ display_name |-> <<"T", "N", "P">> \o <<"_">> \o item,
    description  |-> <<"T", "N", "P">> \o <<"_">> \o item,
    compute_manager_name |-> defaults.compute_manager_name,
    cluster_name |-> item,
    transport_node_profile_name |-> defaults.host_tnp_display_name ]

\* the collection record of one item of the split
tn_collection(defaults, item) ==
  LET cluster == strip(item)
  IN  [ display_name |-> <<"T", "N", "P">> \o <<"_">> \o cluster,
        description  |-> <<"T", "N", "P">> \o <<"_">> \o cluster,
        compute_manager_name |-> defaults.compute_manager_name,
        cluster_name |-> cluster,
        transport_node_profile_name |-> defaults.host_tnp_display_name ]

\* for cluster in config ["compute_clusters_for_prep"].split(','): ...
tn_collections(defaults, config) ==
  LET items == split(config["compute_clusters_for_prep"], ",")
  IN  [ i \in 1..Len(items) |-> tn_collection(defaults, items[i]) ]

\* the document json.dump writes
nsx_vars(defaults0, config, uuid) ==
  LET defaults == defaults_after_cm(defaults0, config)
  IN  [ additional_nodes |-> << [vcenter |-> defaults0.nsx_vcenter],
                                [vcenter |-> defaults0.nsx_vcenter] >>,
        compute_managers |-> compute_managers(defaults0, config),
        edge_transport_nodes |-> << edge1(defaults, config), edge2(defaults, config) >>,
        tier0_gateways |-> tier0_gateways(defaults),
        transport_node_profiles |-> transport_node_profiles(defaults, config, uuid),
        transport_node_collections |-> tn_collections(defaults, config) ]

----------------------------------------------------------------------------
(* The run. *)

Flags == { "start", "reset_defaults", "reset_config", "manual" }

\* MainBranch with the --manual branch calling install_nsx
MainBranch_manual_installs(a) ==
  IF "start" \in a THEN "install_nsx"
  ELSE IF "reset_defaults" \in a THEN "reset_defaults"
  ELSE IF "reset_config" \in a THEN "reset_config"
  ELSE IF "manual" \in a THEN "install_nsx"
  ELSE "none"

\* MainBranch with --reset-defaults tested before --start
MainBranch_reset_first(a) ==
  IF "reset_defaults" \in a THEN "reset_defaults"
  ELSE IF "start" \in a THEN "install_nsx"
  ELSE IF "reset_config" \in a THEN "reset_config"
  ELSE IF "manual" \in a THEN "generate_vars_file"
  ELSE "none"

\* the if / elif chain at the end of the script: the one branch taken
MainBranch(a) ==
  IF "start" \in a THEN "install_nsx"
  ELSE IF "reset_defaults" \in a THEN "reset_defaults"
  ELSE IF "reset_config" \in a THEN "reset_config"
  ELSE IF "manual" \in a THEN "generate_vars_file"
  ELSE "none"

\* call_ansible_to_install: the playbooks, in the order of the calls
Playbooks ==
  << "01_deploy_first_node.yml",
     "02_add_nsx_license_accept_eula.yml",
     "03_configure_compute_manager.yml",
     "04_deploy_second_third_node.yml",
     "05_setup_transport_zones.yml",
     "06_create_tunnel_ip_pools.yml",
     "07_create_edge_transport_nodes.yml",
     "08_setup_edge_cluster.yml",
     "09_configure_t0_gateway.yml",
     "10_create_host_switch_profile.yml",
     "11_create_transport_node_profiles.yml",
     "12_configure_nsx_on_cluster.yml" >>

\* what os.system can return: 0, or the wait status of a failed command
RetValues == { 0, 256, 512 }

\* run_playbook_exits with the status of the command ignored
run_playbook_never_exits(ret) == FALSE

\* run_playbook: if (ret != 0): ... sys.exit (1)
run_playbook_exits(ret) == ret # 0

\* deploy_cluster without the lower()
deploy_cluster_case_sensitive(value) ==
  value = <<"y", "e", "s">> \/ value = <<"y">>

\* the test guarding playbook 04
deploy_cluster(value) ==
  lower(value) = <<"y", "e", "s">> \/ lower(value) = <<"y">>

\* where install_nsx and the --manual branch go on after generate_vars_file
\* has returned
after_generate(a) ==
  IF MainBranch(a) = "install_nsx" THEN "call_ansible_to_install" ELSE "done"

Terminate(status) ==
  /\ pc' = IF status = 0 THEN "done" ELSE "exited"
  /\ exitStatus' = status

\* install_nsx without its call of generate_vars_file
install_nsx_skips_generate ==
  /\ pc = "main"
  /\ MainBranch(args) = "install_nsx"
  /\ pc' = "call_ansible_to_install"
  /\ UNCHANGED fileVars
  /\ UNCHANGED <<args, defaultsFile, configFile, vdsLookup, step, started,
                 returned, varsFile, written, genOutcome, exitStatus>>

\* if (args.start_install): install_nsx()
install_nsx ==
  /\ pc = "main"
  /\ MainBranch(args) = "install_nsx"
  /\ pc' = "generate_vars_file"
  /\ UNCHANGED fileVars
  /\ UNCHANGED <<args, defaultsFile, configFile, vdsLookup, step, started,
                 returned, varsFile, written, genOutcome, exitStatus>>

\* elif (args.reset_defaults): reset_defaults()
reset_defaults ==
  /\ pc = "main"
  /\ MainBranch(args) = "reset_defaults"
  /\ defaultsFile' = FactoryDefaults
  /\ written' = written \cup { g_defaults }
  /\ Terminate(0)
  /\ UNCHANGED fileVars
  /\ UNCHANGED <<args, configFile, vdsLookup, step, started, returned,
                 varsFile, genOutcome>>

\* elif (args.reset_config): reset_config()
reset_config ==
  /\ pc = "main"
  /\ MainBranch(args) = "reset_config"
  /\ configFile' = FactoryConfig
  /\ written' = written \cup { g_config }
  /\ Terminate(0)
  /\ UNCHANGED fileVars
  /\ UNCHANGED <<args, defaultsFile, vdsLookup, step, started, returned,
                 varsFile, genOutcome>>

\* elif (args.manual): generate_vars_file()
manual ==
  /\ pc = "main"
  /\ MainBranch(args) = "generate_vars_file"
  /\ pc' = "generate_vars_file"
  /\ UNCHANGED fileVars
  /\ UNCHANGED <<args, defaultsFile, configFile, vdsLookup, step, started,
                 returned, varsFile, written, genOutcome, exitStatus>>

\* no flag: the script ends without doing anything
no_flag ==
  /\ pc = "main"
  /\ MainBranch(args) = "none"
  /\ Terminate(0)
  /\ UNCHANGED fileVars
  /\ UNCHANGED <<args, defaultsFile, configFile, vdsLookup, step, started,
                 returned, varsFile, written, genOutcome>>

\* generate_vars_file, whole: it ends the process (sys.exit, or an exception
\* nobody catches), or writes the document and returns to its caller
generate_vars_file ==
  /\ pc = "generate_vars_file"
  /\ LET res == GenResult(configFile, vdsLookup)
     IN  /\ genOutcome' = res
         /\ IF res.kind = "written"
            THEN /\ varsFile' = << nsx_vars(defaultsFile, configFile, vdsLookup) >>
                 /\ written' = written \cup { g_nsx_install_vars }
                 /\ pc' = after_generate(args)
                 /\ exitStatus' = IF after_generate(args) = "done" THEN 0 ELSE exitStatus
            ELSE /\ Terminate(res.status)
                 /\ UNCHANGED <<varsFile, written>>
  /\ UNCHANGED fileVars
  /\ UNCHANGED <<args, defaultsFile, configFile, vdsLookup, step, started, returned>>

\* run_playbook, up to os.system (cmd): the playbook is started
run_playbook ==
  /\ pc = "call_ansible_to_install"
  /\ started' = Append(started, Playbooks[step])
  /\ pc' = "os_system"
  /\ UNCHANGED fileVars
  /\ UNCHANGED <<args, defaultsFile, configFile, vdsLookup, step, returned,
                 varsFile, written, genOutcome, exitStatus>>

\* os_system_returns with a failed playbook run again instead of sys.exit (1)
os_system_returns_retries ==
  /\ pc = "os_system"
  /\ \E ret \in RetValues :
       /\ returned' = Append(returned, ret)
       /\ IF run_playbook_exits(ret)
          THEN /\ pc' = "call_ansible_to_install"
               /\ UNCHANGED <<step, exitStatus>>
          ELSE IF step = 3
          THEN /\ pc' = "read_config"
               /\ UNCHANGED <<step, exitStatus>>
          ELSE IF step = Len(Playbooks)
          THEN /\ Terminate(0)
               /\ step' = step
          ELSE /\ pc' = "call_ansible_to_install"
               /\ step' = step + 1
               /\ exitStatus' = exitStatus
  /\ Len(started) < 14
  /\ UNCHANGED fileVars
  /\ UNCHANGED <<args, defaultsFile, configFile, vdsLookup, started,
                 varsFile, written, genOutcome>>

\* os.system returns; run_playbook exits the process or returns, and
\* call_ansible_to_install goes on to its next statement
os_system_returns ==
  /\ pc = "os_system"
  /\ \E ret \in RetValues :
       /\ returned' = Append(returned, ret)
       /\ IF run_playbook_exits(ret)
          THEN /\ Terminate(1)
               /\ step' = step
          ELSE IF step = 3
          THEN /\ pc' = "read_config"
               /\ UNCHANGED <<step, exitStatus>>
          ELSE IF step = Len(Playbooks)
          THEN /\ Terminate(0)
               /\ step' = step
          ELSE /\ pc' = "call_ansible_to_install"
               /\ step' = step + 1
               /\ exitStatus' = exitStatus
  /\ UNCHANGED fileVars
  /\ UNCHANGED <<args, defaultsFile, configFile, vdsLookup, started,
                 varsFile, written, genOutcome>>

\* config = txt_to_json(g_config) and the test on nsx_manager_cluster:
\* playbook 04 is next, or is skipped
read_config ==
  /\ pc = "read_config"
  /\ IF "nsx_manager_cluster" \notin DOMAIN configFile
     THEN /\ Terminate(1)       \* KeyError, not caught
          /\ step' = step
     ELSE /\ pc' = "call_ansible_to_install"
          /\ step' = IF deploy_cluster(configFile["nsx_manager_cluster"]) THEN 4 ELSE 5
          /\ exitStatus' = exitStatus
  /\ UNCHANGED fileVars
  /\ UNCHANGED <<args, defaultsFile, configFile, vdsLookup, started, returned,
                 varsFile, written, genOutcome>>

Next ==
  \/ install_nsx
  \/ reset_defaults
  \/ reset_config
  \/ manual
  \/ no_flag
  \/ generate_vars_file
  \/ run_playbook
  \/ os_system_returns
  \/ read_config

----------------------------------------------------------------------------
(* Initial states: the command line, the two files and the vCenter's answer *)
(* as the run finds them.                                                   *)

NotRun == [kind |-> "none", status |-> 0, at |-> "", error |-> ""]

\* txt_to_json has not returned
NotRead == [kind |-> "none", dict |-> <<>>]

\* no key-value file is followed character by character
NoFile ==
  /\ toWrite = <<>>
  /\ wrote = 0
  /\ fd = <<>>
  /\ jsondict = NotRead

InitWith(argSets, defaultsSet, configs, answers) ==
  /\ args \in argSets
  /\ defaultsFile \in defaultsSet
  /\ configFile \in configs
  /\ vdsLookup \in answers
  /\ pc = "main"
  /\ step = 1
  /\ started = <<>>
  /\ returned = <<>>
  /\ varsFile = <<>>
  /\ written = {}
  /\ genOutcome = NotRun
  /\ exitStatus = -1
  /\ NoFile

\* a config file the user has filled in
FilledConfig ==
  [ FactoryConfig EXCEPT
      !["nsx_vcenter_fqdn"] = "vc-mgmt.mylab.net",
      !["vcenter_fqdn"] = "vc-compute.mylab.net",
      !["edge1_mgmt_netmask_prefix"] = <<"2", "4">>,
      !["edge2_mgmt_netmask_prefix"] = <<"2", "4">>,
      !["edge1_data_network"] = "dvpg-edge1",
      !["edge2_data_network"] = "dvpg-edge2",
      !["Tier0_BGP_AS_Number"] = "65001",
      !["host_vds_name"] = "vds1",
      !["compute_clusters_for_prep"] = <<"A", ",", " ", "b">> ]

\* values of nsx_manager_cluster
ClusterAnswers ==
  { <<"y", "e", "s">>, <<"Y", "e", "s">>, <<"y">>, <<"Y">>, <<"n", "o">>, <<>> }

\* keys that may be missing from the config file
MissingKeys == { {}, {"nsx_manager_cluster"}, {"edge2_data_network"} }

\* the whole run, every combination of flags
FlowConfigs ==
  { ConfigOf(ConfigKeys \ missing,
             [ FilledConfig EXCEPT
                 !["nsx_manager_cluster"] = nmc,
                 !["vcenter_fqdn"] = fqdn,
                 !["edge1_number_of_uplinks"] = e1,
                 !["edge2_number_of_uplinks"] = e2,
                 !["host_number_of_uplinks"] = h,
                 !["edge1_mgmt_netmask_prefix"] = p1 ]) :
      missing \in MissingKeys,
      nmc \in ClusterAnswers,
      fqdn \in { "vc-mgmt.mylab.net", "vc-compute.mylab.net" },
      e1 \in { <<"2">>, <<"3">> },
      e2 \in { <<"2">>, <<"3">> },
      h \in { <<"2">>, <<"3">> },
      p1 \in { <<"2", "4">>, <<>> } }

Init == InitWith(SUBSET Flags, { FactoryDefaults }, FlowConfigs, VdsAnswers)

Spec == Init /\ [][Next]_vars

----------------------------------------------------------------------------
(* Properties of the playbook sequence. *)

PlaybookNumber(p) == CHOOSE i \in 1..Len(Playbooks) : Playbooks[i] = p

Playbook04 == "04_deploy_second_third_node.yml"
NotPlaybook04(p) == p # Playbook04

IsPrefix(s, t) == Len(s) <= Len(t) /\ \A i \in 1..Len(s) : s[i] = t[i]

\* C1: the playbooks are started in the fixed order 01, 02, 03, [04], 05,
\* ..., 12: what has been started is a prefix of that list, with or without
\* 04; a playbook is started only after every playbook started before it
\* has returned 0; and no playbook is started twice.
C1_FixedOrder ==
  /\ \/ IsPrefix(started, Playbooks)
     \/ IsPrefix(started, SelectSeq(Playbooks, NotPlaybook04))
  /\ Len(started) - 1 <= Len(returned) /\ Len(returned) <= Len(started)
  /\ \A i, j \in 1..Len(started) :
       i < j => /\ PlaybookNumber(started[i]) < PlaybookNumber(started[j])
                /\ i <= Len(returned)
                /\ returned[i] = 0
                /\ started[i] # started[j]

\* a run that started all twelve playbooks and ended
C1_Witness ==
  /\ pc = "done"
  /\ Len(started) = 12
  /\ started[12] = "12_configure_nsx_on_cluster.yml"

\* C2: no retry, no recovery: a playbook that returned non-zero is the last
\* one started in the run, it was started once, and the process has ended
\* with exit status 1.
C2_NoRetry ==
  \A i \in 1..Len(returned) :
    returned[i] # 0 =>
      /\ i = Len(started)
      /\ \A j \in 1..Len(started) : j # i => started[j] # started[i]
      /\ pc = "exited"
      /\ exitStatus = 1

\* the fifth playbook of a run failed
C2_Witness ==
  /\ Len(returned) = 5
  /\ returned[5] # 0
  /\ pc = "exited"

\* C3: with --start, a playbook is started only after generate_vars_file
\* has written the variables file; when generate_vars_file ends the process
\* (sys.exit or an uncaught exception), no playbook is ever started.
C3_VarsBeforePlaybooks ==
  /\ started # <<>> =>
       /\ genOutcome.kind = "written"
       /\ g_nsx_install_vars \in written
       /\ varsFile # <<>>
  /\ genOutcome.kind \in { "exit", "exception" } =>
       /\ started = <<>>
       /\ pc = "exited"
       /\ varsFile = <<>>

\* the first playbook is running, the variables file is there
C3_Witness ==
  /\ "start" \in args
  /\ started = << "01_deploy_first_node.yml" >>
  /\ pc = "os_system"
  /\ varsFile # <<>>

Ended == pc \in { "done", "exited" }

\* C5 as stated: with --manual and without --start, generate_vars_file is
\* executed and no playbook is invoked.
C5_AsStated ==
  ("manual" \in args /\ "start" \notin args) =>
    /\ started = <<>>
    /\ pc \notin { "call_ansible_to_install", "os_system", "read_config" }
    /\ Ended => genOutcome.kind # "none"

\* C5, amended: with --manual and none of --start, --reset-defaults and
\* --reset-config, generate_vars_file is executed and no playbook is
\* invoked, whatever the two files hold.
C5_ManualOnlyGenerates ==
  ("manual" \in args /\ args \cap { "start", "reset_defaults", "reset_config" } = {}) =>
    /\ started = <<>>
    /\ pc \notin { "call_ansible_to_install", "os_system", "read_config" }
    /\ Ended => genOutcome.kind # "none"

\* a --manual run that wrote the variables file and ended
C5_Witness ==
  /\ args = { "manual" }
  /\ pc = "done"
  /\ genOutcome.kind = "written"
  /\ varsFile # <<>>
  /\ started = <<>>

\* "yes" or "y" in any capitalisation
YesSpellings ==
  { <<a>> : a \in { "y", "Y" } }
  \cup { <<a, b, c>> : a \in { "y", "Y" }, b \in { "e", "E" }, c \in { "s", "S" } }

SaysYes ==
  /\ "nsx_manager_cluster" \in DOMAIN configFile
  /\ configFile["nsx_manager_cluster"] \in YesSpellings

\* C6: playbook 04 is started only when nsx_manager_cluster, lower-cased, is
\* "yes" or "y"; the playbook started after 03 is 04 when it is, and 05 when
\* it is anything else; 05 is started right after the successful return of
\* 04 in the first case and of 03 in the second.
C6_OptionalCluster ==
  /\ \A i \in 1..Len(started) : started[i] = Playbook04 => SaysYes
  /\ Len(started) >= 4 =>
       /\ "nsx_manager_cluster" \in DOMAIN configFile
       /\ started[4] = IF SaysYes THEN Playbook04 ELSE "05_setup_transport_zones.yml"
  /\ \A i \in 1..Len(started) :
       started[i] = "05_setup_transport_zones.yml" =>
         /\ i > 1
         /\ returned[i - 1] = 0
         /\ started[i - 1] = IF SaysYes THEN Playbook04
                             ELSE "03_configure_compute_manager.yml"

\* nsx_manager_cluster is "no": 05 is started right after 03
C6_Witness ==
  /\ "nsx_manager_cluster" \in DOMAIN configFile
  /\ configFile["nsx_manager_cluster"] = <<"n", "o">>
  /\ Len(started) = 4
  /\ started[3] = "03_configure_compute_manager.yml"
  /\ started[4] = "05_setup_transport_zones.yml"

----------------------------------------------------------------------------
(* generate_vars_file alone (a --manual run), over the uplink counts. *)

\* str(n) for n >= 0
RECURSIVE DecStr(_)
DecStr(n) ==
  IF n < 10 THEN << Digits[n + 1] >>
  ELSE DecStr(n \div 10) \o << Digits[(n % 10) + 1] >>

\* what the user may have put as an uplink count: 0 .. MaxUplinks, nothing, -1
UplinkValues == { DecStr(n) : n \in 0..MaxUplinks } \cup { <<>>, <<"-", "1">> }

UplinkConfigs ==
  { ConfigOf(ConfigKeys \ missing,
             [ FilledConfig EXCEPT
                 !["edge1_number_of_uplinks"] = e1,
                 !["edge2_number_of_uplinks"] = e2,
                 !["host_number_of_uplinks"] = h,
                 !["edge1_mgmt_netmask_prefix"] = p1 ]) :
      missing \in { {}, {"edge2_data_network"} },
      e1 \in UplinkValues,
      e2 \in UplinkValues,
      h \in UplinkValues,
      p1 \in { <<"2", "4">>, <<>> } }

InitUplinks ==
  InitWith({ {"manual"} }, { FactoryDefaults }, UplinkConfigs, VdsAnswers)

NextManual ==
  \/ manual
  \/ generate_vars_file

SpecUplinks == InitUplinks /\ [][NextManual]_vars

UplinkKeys ==
  { "edge1_number_of_uplinks", "edge2_number_of_uplinks", "host_number_of_uplinks" }

\* the config value of key is the decimal spelling of the integer n
Spells(key, n) ==
  /\ key \in DOMAIN configFile
  /\ configFile[key] = IF n < 0 THEN <<"-">> \o DecStr(0 - n) ELSE DecStr(n)

GreaterThanTwo(key) == \E n \in 3..99 : Spells(key, n)
AtMostTwo(key) == \E n \in -9..2 : Spells(key, n)

\* the place of the first read of key in generate_vars_file
ReadPlace(key) ==
  CHOOSE i \in 1..Len(GenReads) :
    /\ GenReads[i].key = key
    /\ \A j \in 1..(i - 1) : GenReads[j].key # key

\* C4 as stated: once generate_vars_file has run, if one of the three uplink
\* counts is an integer greater than 2 the process has exited with status 2;
\* if all three are at most 2, none of the three validations ended it.
C4_AsStated ==
  genOutcome.kind # "none" =>
    /\ (\E k \in UplinkKeys : GreaterThanTwo(k)) =>
         /\ pc = "exited"
         /\ exitStatus = 2
    /\ (\A k \in UplinkKeys : AtMostTwo(k)) =>
         ~(genOutcome.kind = "exit" /\ genOutcome.at \in UplinkKeys)

\* C4, amended: if one of the three uplink counts is an integer greater than
\* 2, generate_vars_file ends the process without writing the variables
\* file: with exit status 2, unless a statement before the validation of the
\* first such key raised an exception nobody catches (a missing key, a
\* non-integer given to int()), which ends the process with status 1; if all
\* three are at most 2, none of the three validations ends the process.
C4_UplinkValidation ==
  genOutcome.kind # "none" =>
    /\ (\E k \in UplinkKeys : GreaterThanTwo(k)) =>
         /\ pc = "exited"
         /\ varsFile = <<>>
         /\ g_nsx_install_vars \notin written
         /\ IF genOutcome.kind = "exception"
            THEN /\ exitStatus = 1
                 /\ \A k \in UplinkKeys :
                      GreaterThanTwo(k) => ReadPlace(genOutcome.at) < ReadPlace(k)
            ELSE /\ genOutcome.kind = "exit"
                 /\ exitStatus = 2
    /\ (\A k \in UplinkKeys : AtMostTwo(k)) =>
         ~(genOutcome.kind = "exit" /\ genOutcome.at \in UplinkKeys)

\* edge2_number_of_uplinks = 3 is refused with exit status 2
C4_Witness ==
  /\ Spells("edge2_number_of_uplinks", 3)
  /\ genOutcome.kind = "exit"
  /\ genOutcome.at = "edge2_number_of_uplinks"
  /\ exitStatus = 2
  /\ pc = "exited"

\* the pnics of edge k in the document written
WrittenPnics(k) ==
  varsFile[1].edge_transport_nodes[k].host_switch_spec.host_switches[1].pnics

EdgeUplinksKey(k) ==
  IF k = 1 THEN "edge1_number_of_uplinks" ELSE "edge2_number_of_uplinks"

\* C9: in the document written, for each edge k and accepted uplink count N
\* (1 or 2), the edge's host switch has exactly N pnics: fp-eth0 / uplink-1,
\* then (N = 2) fp-eth1 / uplink-2.
C9_EdgePnics ==
  genOutcome.kind = "written" =>
    \A k \in 1..2 :
      /\ Spells(EdgeUplinksKey(k), 1) =>
           WrittenPnics(k) = << [device_name |-> "fp-eth0", uplink_name |-> "uplink-1"] >>
      /\ Spells(EdgeUplinksKey(k), 2) =>
           WrittenPnics(k) = << [device_name |-> "fp-eth0", uplink_name |-> "uplink-1"],
                                [device_name |-> "fp-eth1", uplink_name |-> "uplink-2"] >>

\* the uplinks of the host transport node profile in the document written
WrittenUplinks ==
  varsFile[1].transport_node_profiles[1].host_switch_spec.host_switches[1].uplinks

\* C10: in the document written, for every accepted host_number_of_uplinks
\* N (0, 1 or 2), the profile's host switch has exactly N uplinks:
\* Uplink 1 / uplink-1, then (N = 2) Uplink 2 / uplink-2.
C10_HostUplinks ==
  genOutcome.kind = "written" =>
    /\ Spells("host_number_of_uplinks", 0) => WrittenUplinks = <<>>
    /\ Spells("host_number_of_uplinks", 1) =>
         WrittenUplinks = << [vds_uplink_name |-> "Uplink 1", uplink_name |-> "uplink-1"] >>
    /\ Spells("host_number_of_uplinks", 2) =>
         WrittenUplinks = << [vds_uplink_name |-> "Uplink 1", uplink_name |-> "uplink-1"],
                             [vds_uplink_name |-> "Uplink 2", uplink_name |-> "uplink-2"] >>

\* a document written for host_number_of_uplinks = 2
C10_Witness ==
  /\ genOutcome.kind = "written"
  /\ Spells("host_number_of_uplinks", 2)
  /\ Len(WrittenUplinks) = 2

----------------------------------------------------------------------------
(* generate_vars_file alone (a --manual run), over the cluster list. *)

ClusterChars == { "A", "b", " ", "\t", "," }

\* every compute_clusters_for_prep of up to MaxClusterLen characters
ClusterLists == UNION { [1..n -> ClusterChars] : n \in 0..MaxClusterLen }

ClusterConfigs ==
  { ConfigOf(ConfigKeys,
             [ FilledConfig EXCEPT
                 !["compute_clusters_for_prep"] = c,
                 !["vcenter_fqdn"] = fqdn ]) :
      c \in ClusterLists,
      fqdn \in { "vc-mgmt.mylab.net", "vc-compute.mylab.net" } }

InitClusters ==
  InitWith({ {"manual"} }, { FactoryDefaults, EditedDefaults }, ClusterConfigs,
           VdsAnswers)

SpecClusters == InitClusters /\ [][NextManual]_vars

\* the list as the user wrote it, and the places of its commas
ClusterList == configFile["compute_clusters_for_prep"]
Commas == { i \in 1..Len(ClusterList) : ClusterList[i] = "," }
NthComma(n) == CHOOSE p \in Commas : Cardinality({ q \in Commas : q < p }) = n - 1

\* the i-th comma-separated item: what stands between comma i-1 and comma i
Item(i) ==
  SubSeq(ClusterList,
         IF i = 1 THEN 1 ELSE NthComma(i - 1) + 1,
         IF i = Cardinality(Commas) + 1 THEN Len(ClusterList) ELSE NthComma(i) - 1)

\* t from its first to its last character that is not whitespace
Trimmed(t) ==
  LET solid == { j \in 1..Len(t) : t[j] \notin { " ", "\t" } }
  IN  IF solid = {} THEN <<>>
      ELSE SubSeq(t, CHOOSE j \in solid : \A k \in solid : j <= k,
                     CHOOSE j \in solid : \A k \in solid : k <= j)

WrittenCollections == varsFile[1].transport_node_collections

\* C7: in the document written, transport_node_collections has one record
\* per comma-separated item of compute_clusters_for_prep, in the order of
\* the input; the record of item c has cluster_name = c trimmed,
\* display_name = description = "TNP_" + c trimmed, and the defaults'
\* compute_manager_name and host_tnp_display_name.
C7_ClusterExpansion ==
  genOutcome.kind = "written" =>
    /\ Len(WrittenCollections) = Cardinality(Commas) + 1
    /\ \A i \in 1..Len(WrittenCollections) :
         /\ WrittenCollections[i].cluster_name = Trimmed(Item(i))
         /\ WrittenCollections[i].display_name = <<"T", "N", "P", "_">> \o Trimmed(Item(i))
         /\ WrittenCollections[i].description = <<"T", "N", "P", "_">> \o Trimmed(Item(i))
         /\ WrittenCollections[i].compute_manager_name = defaultsFile.compute_manager_name
         /\ WrittenCollections[i].transport_node_profile_name =
              defaultsFile.host_tnp_display_name

\* a list of two items, the first written with whitespace around the name
C7_Witness ==
  /\ genOutcome.kind = "written"
  /\ ClusterList = <<" ", "A", ",", "b">>
  /\ Len(WrittenCollections) = 2
  /\ WrittenCollections[1].cluster_name = <<"A">>
  /\ WrittenCollections[2].cluster_name = <<"b">>
  /\ defaultsFile = EditedDefaults

----------------------------------------------------------------------------
(* generate_vars_file alone (a --manual run), over the edge data networks   *)
(* and the BGP AS number.                                                   *)

DataNetworks == { "dvpg-A", "dvpg-B" }
AsNumbers == { "", "1121", "65001" }

EdgeConfigs ==
  { ConfigOf(ConfigKeys,
             [ FilledConfig EXCEPT
                 !["edge1_data_network"] = d1,
                 !["edge2_data_network"] = d2,
                 !["Tier0_BGP_AS_Number"] = asn,
                 !["edge1_number_of_uplinks"] = e1,
                 !["vcenter_fqdn"] = fqdn ]) :
      d1 \in DataNetworks,
      d2 \in DataNetworks,
      asn \in AsNumbers,
      e1 \in { <<"1">>, <<"2">> },
      fqdn \in { "vc-mgmt.mylab.net", "vc-compute.mylab.net" } }

InitEdges ==
  InitWith({ {"manual"} }, { FactoryDefaults, EditedDefaults }, EdgeConfigs,
           VdsAnswers)

SpecEdges == InitEdges /\ [][NextManual]_vars

\* the data networks of edge k in the document written
WrittenDataNetworks(k) ==
  varsFile[1].edge_transport_nodes[k].node_deployment_info.deployment_config
             .vm_deployment_config.data_networks

\* C11: in the document written, the data_networks of edge 1 hold exactly
\* the config value edge1_data_network, and those of edge 2 exactly
\* edge2_data_network.
C11_OwnDataNetwork ==
  genOutcome.kind = "written" =>
    /\ WrittenDataNetworks(1) = << configFile["edge1_data_network"] >>
    /\ WrittenDataNetworks(2) = << configFile["edge2_data_network"] >>

\* the local_as_num of the tier0 gateway in the document written
WrittenLocalAs ==
  varsFile[1].tier0_gateways[1].locale_services[1].BGP.local_as_num

\* C12: in the document written, the local_as_num of the BGP section of the
\* tier0 gateway's locale service is the config value Tier0_BGP_AS_Number.
C12_UsersAsNumber ==
  genOutcome.kind = "written" =>
    WrittenLocalAs = configFile["Tier0_BGP_AS_Number"]

----------------------------------------------------------------------------
(* The flags. *)

FlagOrder == << "start", "reset_defaults", "reset_config", "manual" >>

\* the first flag of FlagOrder that was given, "none" when none was
FirstFlag ==
  IF args = {} THEN "none"
  ELSE FlagOrder[CHOOSE i \in 1..Len(FlagOrder) :
                   /\ FlagOrder[i] \in args
                   /\ \A j \in 1..(i - 1) : FlagOrder[j] \notin args]

InPlaybooks == pc \in { "call_ansible_to_install", "os_system", "read_config" }

\* C14: only the first flag given, in the order --start, --reset-defaults,
\* --reset-config, --manual, is acted on: the run writes no file but the one
\* of that flag, starts playbooks only for --start and runs
\* generate_vars_file only for --start and --manual; with no flag it writes
\* no file and starts no playbook.
C14_OneAction ==
  /\ FirstFlag = "start" => written \subseteq { g_nsx_install_vars }
  /\ FirstFlag = "reset_defaults" =>
       /\ written \subseteq { g_defaults }
       /\ Ended => written = { g_defaults }
  /\ FirstFlag = "reset_config" =>
       /\ written \subseteq { g_config }
       /\ Ended => written = { g_config }
  /\ FirstFlag = "manual" => written \subseteq { g_nsx_install_vars }
  /\ FirstFlag = "none" => written = {}
  /\ FirstFlag # "start" => started = <<>> /\ ~InPlaybooks
  /\ FirstFlag \notin { "start", "manual" } =>
       /\ genOutcome = NotRun
       /\ varsFile = <<>>
       /\ pc # "generate_vars_file"

\* --start and --reset-defaults together: the installation ran to its end
\* and the defaults file was not rewritten
C14_Witness ==
  /\ args = { "start", "reset_defaults" }
  /\ pc = "done"
  /\ Len(started) >= 11
  /\ written = { g_nsx_install_vars }

----------------------------------------------------------------------------
(* Termination of call_ansible_to_install.  os.system blocks until the      *)
(* command has ended and every other step is a statement of the script, so  *)
(* a step that can be taken is taken.                                       *)

\* the command line --start, which main sends to install_nsx
InitStart == InitWith({ { "start" } }, { FactoryDefaults }, FlowConfigs, VdsAnswers)

NextStart ==
  \/ install_nsx
  \/ generate_vars_file
  \/ run_playbook
  \/ os_system_returns
  \/ read_config

SpecFair == InitStart /\ [][NextStart]_vars /\ WF_vars(NextStart)

AllReturnedZero(n) == \A i \in 1..n : returned[i] = 0

\* the run ended normally after its last playbook, 12, returned 0
EndedInSuccess ==
  /\ pc = "done"
  /\ exitStatus = 0
  /\ Len(returned) = Len(started)
  /\ started[Len(started)] = "12_configure_nsx_on_cluster.yml"
  /\ AllReturnedZero(Len(returned))

\* the run ended with status 1 after the first playbook that returned non-zero
EndedInFailure ==
  /\ pc = "exited"
  /\ exitStatus = 1
  /\ Len(returned) = Len(started)
  /\ returned[Len(returned)] # 0
  /\ AllReturnedZero(Len(returned) - 1)

\* the run ended with status 1 after playbook 03 returned 0, on the KeyError
\* of a config file without nsx_manager_cluster
EndedInKeyError ==
  /\ pc = "exited"
  /\ exitStatus = 1
  /\ "nsx_manager_cluster" \notin DOMAIN configFile
  /\ started = SubSeq(Playbooks, 1, 3)
  /\ returned = << 0, 0, 0 >>

\* a run of call_ansible_to_install has ended
AnsibleEnded == Ended /\ started # <<>>

\* C15 as stated, its terminal states: a run of call_ansible_to_install that
\* has ended ended in success after playbook 12, or with status 1 after the
\* first playbook that returned non-zero.
C15_AsStated ==
  AnsibleEnded => (EndedInSuccess \/ EndedInFailure)

\* C15, amended: every playbook started returning, every run of
\* call_ansible_to_install ends, in exactly one of three terminal states:
\* success after playbook 12 returned 0, exit status 1 after the first
\* playbook that returned non-zero, or exit status 1 on the uncaught
\* KeyError after playbook 03 returned 0 when the config file has no
\* nsx_manager_cluster; no run goes back to an earlier playbook.
C15_Terminates ==
  /\ InPlaybooks ~> AnsibleEnded
  /\ [](AnsibleEnded =>
          /\ EndedInSuccess \/ EndedInFailure \/ EndedInKeyError
          /\ ~(EndedInSuccess /\ EndedInFailure)
          /\ ~(EndedInSuccess /\ EndedInKeyError)
          /\ ~(EndedInFailure /\ EndedInKeyError))
  /\ [][/\ step' >= step
        /\ IsPrefix(started, started')
        /\ IsPrefix(returned, returned')
        /\ Ended => UNCHANGED vars]_vars

\* a run without playbook 04 that ended in success
C15_Witness ==
  /\ EndedInSuccess
  /\ Len(started) = 11
  /\ started[4] = "05_setup_transport_zones.yml"

----------------------------------------------------------------------------
(* The flat key-value files, character by character: writeln writes them,   *)
(* txt_to_json reads them.                                                  *)

\* what one call writeln (fd, key, value, comment, example) writes
writeln_text(key, value, comment, example) ==
  <<"\n", "#", " ">> \o comment \o <<"\n">>
  \o (IF example # <<>>
      THEN <<"#", " ", "E", "x", "a", "m", "p", "l", "e", ":", " ">>
           \o example \o <<"\n">>
      ELSE <<>>)
  \o (IF key = <<>>
      THEN <<>>
      ELSE key \o <<" ", "=", " ", "\"">> \o value \o <<"\"", "\n">>)

\* the writeln calls of reset_defaults
reset_defaults_calls == <<
  [ key |-> <<>>,
    value |-> <<>>,
    comment |-> <<"D","e","f","a","u","l","t","s","\n">>,
    example |-> <<>> ],
  [ key |-> <<"n","s","x","_","u","s","e","r","n","a","m","e">>,
    value |-> <<"a","d","m","i","n">>,
    comment |-> <<"N","S","X"," ","U","s","e","r","n","a","m","e">>,
    example |-> <<>> ],
  [ key |-> <<"v","a","l","i","d","a","t","e","_","c","e","r","t","s">>,
    value |-> <<"f","a","l","s","e">>,
    comment |-> <<"A","c","c","e","p","t"," ","s","e","l","f","-","s","i","g","n","e","d"," ","c","e","r","t","s">>,
    example |-> <<>> ],
  [ key |-> <<"n","s","x","_","v","c","e","n","t","e","r">>,
    value |-> <<"v","S","p","h","e","r","e","_","N","S","X","_","d","e","p","l","o","y">>,
    comment |-> <<"D","i","s","p","l","a","y"," ","n","a","m","e"," ","o","f"," ","v","C","e","n","t","e","r"," ","o","n"," ","w","h","i","c","h"," ","N","S","X"," ","w","i","l","l"," ","b","e"," ","d","e","p","l","o","y","e","d">>,
    example |-> <<>> ],
  [ key |-> <<"c","o","m","p","u","t","e","_","m","a","n","a","g","e","r","_","n","a","m","e">>,
    value |-> <<"v","c","e","n","t","e","r">>,
    comment |-> <<"D","i","s","p","l","a","y"," ","N","a","m","e"," ","o","n"," ","N","S","X"," ","M","a","n","a","g","e","r"," ","f","o","r"," ","t","h","e"," ","r","e","g","i","s","t","e","r","e","d"," ","v","C","e","n","t","e","r"," ","S","e","r","v","e","r">>,
    example |-> <<>> ],
  [ key |-> <<"o","v","e","r","l","a","y","_","t","z","_","n","a","m","e">>,
    value |-> <<"O","v","e","r","l","a","y","-","T","Z">>,
    comment |-> <<"O","v","e","r","l","a","y"," ","T","r","a","n","s","p","o","r","t"," ","Z","o","n","e"," ","d","i","s","p","l","a","y"," ","n","a","m","e">>,
    example |-> <<>> ],
  [ key |-> <<"v","l","a","n","_","t","z","_","n","a","m","e">>,
    value |-> <<"V","L","A","N","-","T","Z">>,
    comment |-> <<"V","L","A","N"," ","T","r","a","n","s","p","o","r","t"," ","Z","o","n","e"," ","d","i","s","p","l","a","y"," ","n","a","m","e">>,
    example |-> <<>> ],
  [ key |-> <<"i","p","_","p","o","o","l","_","1","_","n","a","m","e">>,
    value |-> <<"E","d","g","e","-","T","E","P","-","I","P","-","P","o","o","l">>,
    comment |-> <<"I","P"," ","P","o","o","l"," ","u","s","e","d"," ","b","y"," ","E","d","g","e"," ","T","r","a","n","s","p","o","r","t"," ","N","o","d","e","s">>,
    example |-> <<>> ],
  [ key |-> <<"i","p","_","p","o","o","l","_","2","_","n","a","m","e">>,
    value |-> <<"H","o","s","t","-","T","E","P","-","I","P","-","P","o","o","l">>,
    comment |-> <<"I","P"," ","P","o","o","l"," ","u","s","e","d"," ","b","y"," ","H","o","s","t"," ","T","r","a","n","s","p","o","r","t"," ","N","o","d","e","s",".">>,
    example |-> <<>> ],
  [ key |-> <<"e","d","g","e","_","f","o","r","m","_","f","a","c","t","o","r">>,
    value |-> <<"L","A","R","G","E">>,
    comment |-> <<"V","M"," ","f","o","r","m"," ","f","a","c","t","o","r"," ","f","o","r"," ","E","d","g","e"," ","N","o","d","e"," ","d","e","p","l","o","y","m","e","n","t","s","."," ","D","e","f","a","u","l","t","s"," ","t","o"," ","L","A","R","G","E","."," ","O","t","h","e","r"," ","c","h","o","i","c","e","s"," ","a","r","e"," ","S","M","A","L","L"," ","a","n","d"," ","M","E","D","I","U","M">>,
    example |-> <<>> ],
  [ key |-> <<"e","d","g","e","1","_","h","o","s","t","_","s","w","i","t","c","h","_","n","a","m","e">>,
    value |-> <<"n","v","d","s","1">>,
    comment |-> <<"H","o","s","t"," ","S","w","i","t","c","h"," ","N","a","m","e"," ","o","n"," ","E","d","g","e","1">>,
    example |-> <<>> ],
  [ key |-> <<"e","d","g","e","1","_","d","i","s","p","l","a","y","_","n","a","m","e">>,
    value |-> <<"e","d","g","e","-","0","1">>,
    comment |-> <<"D","i","s","p","l","a","y"," ","N","a","m","e"," ","o","f"," ","E","d","g","e","1"," ","o","n"," ","N","S","X"," ","M","a","n","a","g","e","r">>,
    example |-> <<>> ],
  [ key |-> <<"e","d","g","e","2","_","h","o","s","t","_","s","w","i","t","c","h","_","n","a","m","e">>,
    value |-> <<"n","v","d","s","1">>,
    comment |-> <<"H","o","s","t"," ","S","w","i","t","c","h"," ","N","a","m","e"," ","o","n"," ","E","d","g","e","2">>,
    example |-> <<>> ],
  [ key |-> <<"e","d","g","e","2","_","d","i","s","p","l","a","y","_","n","a","m","e">>,
    value |-> <<"e","d","g","e","-","0","2">>,
    comment |-> <<"D","i","s","p","l","a","y"," ","N","a","m","e"," ","o","f"," ","E","d","g","e","2"," ","o","n"," ","N","S","X"," ","M","a","n","a","g","e","r">>,
    example |-> <<>> ],
  [ key |-> <<"e","d","g","e","_","c","l","u","s","t","e","r","_","d","i","s","p","l","a","y","_","n","a","m","e">>,
    value |-> <<"E","d","g","e","-","C","l","u","s","t","e","r">>,
    comment |-> <<"D","i","s","p","l","a","y"," ","n","a","m","e"," ","o","f"," ","t","h","e"," ","E","d","g","e"," ","C","l","u","s","t","e","r">>,
    example |-> <<>> ],
  [ key |-> <<"e","d","g","e","_","c","l","u","s","t","e","r","_","p","r","o","f","i","l","e","_","b","i","n","d","i","n","g">>,
    value |-> <<"n","s","x","-","d","e","f","a","u","l","t","-","e","d","g","e","-","h","i","g","h","-","a","v","a","i","l","a","b","i","l","i","t","y","-","p","r","o","f","i","l","e">>,
    comment |-> <<"E","d","g","e"," ","C","l","u","s","t","e","r"," ","P","r","o","f","i","l","e"," ","B","i","n","d","i","n","g">>,
    example |-> <<>> ],
  [ key |-> <<"t","i","e","r","0","_","d","i","s","p","l","a","y","_","n","a","m","e">>,
    value |-> <<"v","S","p","h","e","r","e","K","8","s","T","0">>,
    comment |-> <<"T","i","e","r","0"," ","d","i","s","p","l","a","y"," ","n","a","m","e">>,
    example |-> <<>> ],
  [ key |-> <<"h","o","s","t","_","s","w","i","t","c","h","_","p","r","o","f","i","l","e","_","n","a","m","e">>,
    value |-> <<"v","S","p","h","e","r","e","K","8","_","u","p","l","i","n","k","_","p","r","o","f","i","l","e">>,
    comment |-> <<"N","a","m","e"," ","o","f"," ","t","h","e"," ","H","o","s","t"," ","S","w","i","t","c","h"," ","U","p","l","i","n","k"," ","P","r","o","f","i","l","e">>,
    example |-> <<>> ],
  [ key |-> <<"h","o","s","t","_","s","w","i","t","c","h","_","u","p","l","i","n","k","1","_","n","a","m","e">>,
    value |-> <<"u","p","l","i","n","k","-","1">>,
    comment |-> <<"U","p","l","i","n","k","1"," ","N","a","m","e"," ","u","s","e","d"," ","f","o","r"," ","H","o","s","t"," ","s","w","i","t","c","h"," ","t","e","a","m","i","n","g">>,
    example |-> <<>> ],
  [ key |-> <<"h","o","s","t","_","s","w","i","t","c","h","_","u","p","l","i","n","k","2","_","n","a","m","e">>,
    value |-> <<"u","p","l","i","n","k","-","2">>,
    comment |-> <<"U","p","l","i","n","k","1"," ","N","a","m","e"," ","u","s","e","d"," ","f","o","r"," ","H","o","s","t"," ","s","w","i","t","c","h"," ","t","e","a","m","i","n","g">>,
    example |-> <<>> ],
  [ key |-> <<"h","o","s","t","_","s","w","i","t","c","h","_","t","e","a","m","i","n","g","_","p","o","l","i","c","y">>,
    value |-> <<"F","A","I","L","O","V","E","R","_","O","R","D","E","R">>,
    comment |-> <<"T","e","a","m","i","n","g"," ","p","o","l","i","c","y","."," ","C","h","o","i","c","e","s"," ","a","r","e"," ","F","A","I","L","O","V","E","R","_","O","R","D","E","R",","," ","L","O","A","D","B","A","L","A","N","C","E","_","S","R","C","I","D"," ","o","r"," ","L","O","A","D","B","A","L","A","N","C","E","_","S","R","C","_","M","A","C">>,
    example |-> <<>> ],
  [ key |-> <<"h","o","s","t","_","t","n","p","_","d","i","s","p","l","a","y","_","n","a","m","e">>,
    value |-> <<"v","S","p","h","e","r","e","K","8","_","T","N","P">>,
    comment |-> <<"N","a","m","e"," ","o","f"," ","t","h","e"," ","T","r","a","n","s","p","o","r","t"," ","N","o","d","e"," ","P","r","o","f","i","l","e"," ","c","o","n","f","i","g","u","r","e","d"," ","o","n"," ","t","h","e"," ","C","o","m","p","u","t","e"," ","C","l","u","s","t","e","r","s">>,
    example |-> <<>> ],
  [ key |-> <<"h","o","s","t","_","d","e","f","a","u","l","t","_","h","o","s","t","_","s","w","i","t","c","h","_","p","r","o","f","i","l","e">>,
    value |-> <<"n","s","x","-","d","e","f","a","u","l","t","-","u","p","l","i","n","k","-","h","o","s","t","s","w","i","t","c","h","-","p","r","o","f","i","l","e">>,
    comment |-> <<"H","o","s","t"," ","S","w","i","t","c","h"," ","P","r","o","f","i","l","e"," ","u","s","e","d"," ","f","o","r"," ","H","o","s","t"," ","T","r","a","n","s","p","o","r","t"," ","N","o","d","e"," ","c","o","n","f","i","g">>,
    example |-> <<>> ] >>

\* for line in open (filename): the lines of the text, each with its line
\* end; a line ends at a newline or at the end of the text
LineEnds(text) ==
  { i \in 1..Len(text) : text[i] = "\n" \/ i = Len(text) }

\* the end of the n-th line
LineEnd(text, n) ==
  CHOOSE i \in LineEnds(text) :
    Cardinality({ j \in LineEnds(text) : j <= i }) = n

LinesOf(text) ==
  [n \in 1..Cardinality(LineEnds(text)) |->
     SubSeq(text, IF n = 1 THEN 1 ELSE LineEnd(text, n - 1) + 1, LineEnd(text, n))]

\* str.strip(chars), for one character
RECURSIVE strip_char(_, _)
strip_char(s, c) ==
  IF s # <<>> /\ Head(s) = c THEN strip_char(Tail(s), c)
  ELSE IF s # <<>> /\ s[Len(s)] = c THEN strip_char(SubSeq(s, 1, Len(s) - 1), c)
  ELSE s

\* str.startswith(c), for one character
startswith(s, c) == s # <<>> /\ Head(s) = c

\* the lines of the loop of txt_to_json after line = line.strip()
Stripped(lines) == [n \in 1..Len(lines) |-> strip(lines[n])]

\* the lines the loop does not skip
DataLines(lines) ==
  { n \in 1..Len(lines) :
      ~startswith(Stripped(lines)[n], "#") /\ Stripped(lines)[n] # <<>> }

\* items = line.split ('=')
Items(lines, n) == split(Stripped(lines)[n], "=")

\* the last line that assigns jsondict [key]
LastLineOf(lines, key) ==
  CHOOSE n \in DataLines(lines) :
    /\ strip(Items(lines, n)[1]) = key
    /\ \A m \in DataLines(lines) : strip(Items(lines, m)[1]) = key => m <= n

\* the loop of txt_to_json over the lines: every line it does not skip
\* assigns jsondict [items [0].strip ()], a later line over an earlier one;
\* items [1] of a line without '=' raises IndexError
ReadLines(lines) ==
  IF \E n \in DataLines(lines) : Len(Items(lines, n)) < 2
  THEN [kind |-> "IndexError", dict |-> <<>>]
  ELSE [kind |-> "dict",
        dict |-> [key \in { strip(Items(lines, n)[1]) : n \in DataLines(lines) } |->
                    strip_char(strip(Items(lines, LastLineOf(lines, key))[2]), "\"")]]

\* txt_to_json of a file with this text
txt_to_json_of(text) == ReadLines(LinesOf(text))

\* one call of writeln by the writer of the file
writeln ==
  /\ wrote < Len(toWrite)
  /\ LET c == toWrite[wrote + 1]
     IN  fd' = fd \o writeln_text(c.key, c.value, c.comment, c.example)
  /\ wrote' = wrote + 1
  /\ UNCHANGED <<toWrite, jsondict>>
  /\ UNCHANGED <<args, defaultsFile, configFile, vdsLookup, pc, step, started,
                 returned, varsFile, written, genOutcome, exitStatus>>

\* txt_to_json (filename), the file closed by its writer
txt_to_json ==
  /\ wrote = Len(toWrite)
  /\ jsondict = NotRead
  /\ jsondict' = txt_to_json_of(fd)
  /\ UNCHANGED <<toWrite, wrote, fd>>
  /\ UNCHANGED <<args, defaultsFile, configFile, vdsLookup, pc, step, started,
                 returned, varsFile, written, genOutcome, exitStatus>>

NextFiles ==
  \/ writeln
  \/ txt_to_json

\* the strings of up to n characters of a set
StringsOver(chars, n) == UNION { [1..len -> chars] : len \in 0..n }

KeyChars == { "k", "_" }
ValueChars == { "a", "=", "\"", " " }
Comments == { <<>>, <<"c">>, <<"c", "\n">> }
Examples == { <<>>, <<"e">> }

\* writeln (f, key, value, comment, example) with a key
KeyCalls ==
  { [ key |-> k, value |-> v, comment |-> c, example |-> e ] :
      k \in StringsOver(KeyChars, MaxKeyLen) \ { <<>> },
      v \in StringsOver(ValueChars, MaxValueLen),
      c \in Comments,
      e \in Examples }

\* writeln (f, comment = ...), as at the head of reset_defaults
CommentCalls ==
  { [ key |-> <<>>, value |-> <<>>, comment |-> c, example |-> <<>> ] :
      c \in Comments }

\* what the writers do: one key written, after a heading or not, or the
\* calls of reset_defaults
FileCalls ==
  { <<c>> : c \in KeyCalls }
  \cup { <<h, c>> : h \in CommentCalls, c \in { x \in KeyCalls : x.example = <<>> } }
  \cup { reset_defaults_calls }

InitFiles ==
  /\ toWrite \in FileCalls
  /\ wrote = 0
  /\ fd = <<>>
  /\ jsondict = NotRead
  /\ args = {}
  /\ defaultsFile = FactoryDefaults
  /\ configFile = FactoryConfig
  /\ vdsLookup = VdsNotFound
  /\ pc = "main"
  /\ step = 1
  /\ started = <<>>
  /\ returned = <<>>
  /\ varsFile = <<>>
  /\ written = {}
  /\ genOutcome = NotRun
  /\ exitStatus = -1

SpecFiles == InitFiles /\ [][NextFiles]_vars

\* the calls with a key
Keyed == { i \in 1..Len(toWrite) : toWrite[i].key # <<>> }

\* the last call that wrote this key
LastOf(key) ==
  CHOOSE i \in Keyed :
    /\ toWrite[i].key = key
    /\ \A j \in Keyed : toWrite[j].key = key => j <= i

\* C13: round trip of the flat key-value files.  Once txt_to_json has read
\* the file the writeln calls wrote, it has returned a dictionary whose keys
\* are exactly the non-empty keys written (comment and blank lines give no
\* key), each mapped to the value it was written with; so for the calls of
\* reset_defaults.
C13_RoundTrip ==
  jsondict # NotRead =>
    /\ jsondict.kind = "dict"
    /\ DOMAIN jsondict.dict = { toWrite[i].key : i \in Keyed }
    /\ \A i \in Keyed :
         jsondict.dict[toWrite[i].key] = toWrite[LastOf(toWrite[i].key)].value

\* the file of reset_defaults read back: the factory pairs, nothing else
C13_FactoryDefaultsReadBack ==
  (jsondict # NotRead /\ toWrite = reset_defaults_calls) =>
    /\ jsondict.kind = "dict"
    /\ Cardinality(DOMAIN jsondict.dict) = Len(reset_defaults_calls) - 1
    /\ \A i \in Keyed : jsondict.dict[toWrite[i].key] = toWrite[i].value

\* the values that come back as written: no '=', no '"' at either end
ComesBack(value) ==
  /\ \A i \in 1..Len(value) : value[i] # "="
  /\ value = <<>> \/ (Head(value) # "\"" /\ value[Len(value)] # "\"")

\* a value with '=' or an outer '"' was written and read back
C13_ValueLost ==
  /\ jsondict # NotRead
  /\ \E i \in Keyed : ~ComesBack(toWrite[i].value)

====
